---------------------------- MODULE Spec2Model ----------------------------
(***************************************************************************)
(* A model of the transition-manifold pipeline of pytmrc:                  *)
(*   tram/transition_manifold.py  (pairwise matrix builders, the linear    *)
(*                                 random-feature engine)                  *)
(*   tram/manifold_learning.py    (diffusionMaps, evaluateDiffusionMaps)   *)
(*                                                                         *)
(* Numbers.  numpy's float64 values are modelled as extended rationals     *)
(* [n |-> numerator, d |-> denominator] in lowest terms with d > 0; d = 0  *)
(* holds the non-finite values numpy produces on a division by zero:       *)
(* nan = 0/0 and +-inf = +-1/0.  Rounding error is not modelled.  Arrays   *)
(* are functions on 0 .. len-1, as in the source.                          *)
(***************************************************************************)
EXTENDS Integers, FiniteSets, Sequences, TLC

\* ------------------------------------------------------------- bounds
\* largest number of start points / test points (npoints)
MaxPoints == 2
\* largest number of simulations per start point (M)
MaxSims == 2
\* largest trajectory length (T)
MaxTraj == 3
\* largest |lag|
MaxLag == 2
\* largest matrix dimension handed to diffusionMaps directly
MaxDim == 3
\* largest n_components handed to diffusionMaps / evaluateDiffusionMaps
MaxComp == 3

\* coordinates of the (one-dimensional) sample points
Points == {0, 1}
\* bandwidths an instance is constructed with
Epsis == {1, 2}

\* ------------------------------------------------- extended rationals
Abs(x) == IF x < 0 THEN -x ELSE x

Sign(x) == IF x > 0 THEN 1 ELSE IF x < 0 THEN -1 ELSE 0

RECURSIVE Gcd(_, _)
Gcd(a, b) == IF b = 0 THEN a ELSE Gcd(b, a % b)

NaN == [n |-> 0, d |-> 0]

IsFinite(x) == x.d > 0

IsNaN(x) == x.d = 0 /\ x.n = 0

\* n/d in lowest terms, d # 0
Rat(n, d) ==
    LET g == Gcd(Abs(n), Abs(d))
        s == Sign(d)
    IN  [n |-> (s * n) \div g, d |-> (s * d) \div g]

RatOfInt(k) == [n |-> k, d |-> 1]

RatNeg(x) == [n |-> -x.n, d |-> x.d]

RatAdd(x, y) ==
    IF IsFinite(x) /\ IsFinite(y) THEN Rat(x.n * y.d + y.n * x.d, x.d * y.d)
    ELSE IF IsNaN(x) \/ IsNaN(y) THEN NaN
    ELSE IF ~IsFinite(x) /\ ~IsFinite(y) THEN (IF x.n = y.n THEN x ELSE NaN)
    ELSE IF IsFinite(x) THEN y ELSE x

RatSub(x, y) == RatAdd(x, RatNeg(y))

RatMul(x, y) ==
    IF IsFinite(x) /\ IsFinite(y) THEN Rat(x.n * y.n, x.d * y.d)
    ELSE [n |-> Sign(x.n) * Sign(y.n), d |-> 0]

\* numpy float division: x/0 is nan for x = 0 and +-inf otherwise (a warning,
\* not an exception)
RatDiv(x, y) ==
    IF IsFinite(x) /\ IsFinite(y)
    THEN IF y.n = 0 THEN [n |-> Sign(x.n), d |-> 0]
         ELSE Rat(x.n * y.d, x.d * y.n)
    ELSE IF IsNaN(x) \/ IsNaN(y) THEN NaN
    ELSE IF ~IsFinite(x) /\ ~IsFinite(y) THEN NaN
    ELSE IF IsFinite(x) THEN RatOfInt(0)
    ELSE [n |-> x.n * (IF y.n < 0 THEN -1 ELSE 1), d |-> 0]

\* ------------------------------------------------------------- arrays
ALen(a) == Cardinality(DOMAIN a)

\* sum of the first k entries of an integer array
RECURSIVE SumTo(_, _)
SumTo(a, k) == IF k = 0 THEN 0 ELSE SumTo(a, k - 1) + a[k - 1]

\* np.sum of a matrix (array of rows)
NpSum(G) == SumTo([a \in DOMAIN G |-> SumTo(G[a], ALen(G[a]))], ALen(G))

\* a[mask]: the entries of a at the True positions of mask, in order
MaskSelect(a, mask) ==
    LET idx == {t \in DOMAIN mask : mask[t]}
        rank(t) == Cardinality({u \in idx : u < t})
    IN  [q \in 0 .. (Cardinality(idx) - 1) |->
            a[CHOOSE t \in idx : rank(t) = q]]

\* a[start::step]
StridedSlice(a, start, step) ==
    LET cnt == Cardinality({r \in DOMAIN a : r >= start /\ (r - start) % step = 0})
    IN  [q \in 0 .. (cnt - 1) |-> a[start + q * step]]

\* --------------------------------------------------- kernel provider
\* The kernel object is a collaborator; three evaluators stand for it: two
\* symmetric kernels and one evaluator that is not symmetric.
Kernels == {"delta", "linear", "skew"}

SymmetricKernels == {"delta", "linear"}

KernelValue(kern, x, y) ==
    CASE kern = "delta"  -> IF x = y THEN 1 ELSE 0
      [] kern = "linear" -> x * y + 1
      [] kern = "skew"   -> x + 2 * y

\* kernel.evaluate(A, B): the |A| x |B| matrix of kernel values
KernelEvaluate(kern, A, B) ==
    [a \in DOMAIN A |-> [b \in DOMAIN B |-> KernelValue(kern, A[a], B[b])]]


\* ------------------------------------------------------ tagged values
\* Python values of different types held by one attribute or parameter
None == [kind |-> "None"]

Unset == [kind |-> "unset"]

IntVal(k) == [kind |-> "int", val |-> k]

ArrVal(a) == [kind |-> "array", val |-> a]

\* an (n, 1) array of points as a float matrix
PointsAsMatrix(a) == [i \in DOMAIN a |-> [c \in {0} |-> RatOfInt(a[i])]]

\* ------------------------------------------ diffusionMaps, as a callee
\* def diffusionMaps(distMat, n_components=10, epsi=1., alpha=0.5)
DefaultNComponents == 10

DefaultAlpha == [n |-> 1, d |-> 2]

\* The eigenpairs diffusionMaps returns are a function of its four bound
\* parameters; for the callers the result is the application term itself.
DiffusionMapsResult(distMat, n_components, epsi, alpha) ==
    [kind |-> "eigs", distMat |-> distMat, n_components |-> n_components,
     epsi |-> epsi, alpha |-> alpha]

\* ------------------------------------------------------------ state
VARIABLES
    burst,       \* the KernelBurstTransitionManifold instance
    burstArg,    \* the ensemble X its caller passes to fit
    burstTrace,  \* locals of the last fit call
    trajTM,      \* the KernelTrajTransitionManifold instance
    trajTrace,   \* locals of the last computeRC call
    lrf,         \* the LinearRandomFeatureManifold instance
    lrfOut,      \* what the last call on it returned or raised
    dm,          \* a diffusionMaps call: its arguments, locals and result
    dmOut        \* what the last evaluateDiffusionMaps call returned

builderVars == <<burst, burstArg, burstTrace, trajTM, trajTrace>>

lrfVars == <<lrf, lrfOut>>

dmVars == <<dm, dmOut>>

vars == <<burst, burstArg, burstTrace, trajTM, trajTrace, lrf, lrfOut, dm, dmOut>>

\* ------------------------------------ KernelBurstTransitionManifold
\* ensembles of shape (n, M, 1): n start points, M endpoints each
Tensors ==
    UNION {{[n |-> s[1], M |-> s[2], data |-> d] :
               d \in [0 .. (s[1] - 1) -> [0 .. (s[2] - 1) -> Points]]} :
           s \in (1 .. MaxPoints) \X (0 .. MaxSims)}

\* X.swapaxes(0,1): shape (M, n)
SwapAxes(X) == [m \in 0 .. (X.M - 1) |-> [i \in 0 .. (X.n - 1) |-> X.data[i][m]]]

\* Y.reshape(rows*cols, dim) of a rows x cols array of points, C order
ReshapeRows(Y, rows, cols) ==
    [r \in 0 .. (rows * cols - 1) |-> Y[r \div cols][r % cols]]

\* _reshape(X)
Reshape(X) == ReshapeRows(SwapAxes(X), X.M, X.n)

\* dXX of fit: the self-kernel sum of every cloud X[i::npoints]
BurstDXX(kern, Xf, npoints) ==
    [i \in 0 .. (npoints - 1) |->
        NpSum(KernelEvaluate(kern, StridedSlice(Xf, i, npoints),
                                   StridedSlice(Xf, i, npoints)))]

\* distMat after the double loop: entries j < i written, the rest np.zeros
BurstLower(kern, Xf, npoints, M, dXX) ==
    [i \in 0 .. (npoints - 1) |-> [j \in 0 .. (npoints - 1) |->
        IF j < i
        THEN LET GXY == KernelEvaluate(kern, StridedSlice(Xf, i, npoints),
                                             StridedSlice(Xf, j, npoints))
             IN  RatDiv(RatOfInt(dXX[i] + dXX[j] - 2 * NpSum(GXY)),
                        RatOfInt(M * M))
        ELSE RatOfInt(0)]]

\* a mirror step that leaves the upper triangle at zero
MirrorNone(L) == L

\* distMat + np.transpose(distMat)
MirrorAdd(L) ==
    [i \in DOMAIN L |-> [j \in DOMAIN L |-> RatAdd(L[i][j], L[j][i])]]

BurstInit ==
    /\ burstArg \in Tensors
    /\ \E kern \in Kernels, epsi \in Epsis :
          burst = [kind |-> "KernelBurstTransitionManifold", kernel |-> kern,
                   epsi |-> epsi, M |-> Unset, rc |-> None, distMat |-> Unset,
                   status |-> "new"]
    /\ burstTrace = [called |-> FALSE]

\* fit(X, showprogress): showprogress only switches the progress bars.  The
\* eigensolver inside diffusionMaps returns or raises (eigsOk).
BurstFit ==
    /\ burst.kind = "KernelBurstTransitionManifold"
    /\ \E eigsOk \in BOOLEAN :
       \E Xf \in {Reshape(burstArg)} :
       \E dXX \in {BurstDXX(burst.kernel, Xf, burstArg.n)} :
       \E distMat \in {MirrorAdd(BurstLower(burst.kernel, Xf, burstArg.n, burstArg.M, dXX))} :
           LET eigs == DiffusionMapsResult(ArrVal(distMat),
                           IntVal(DefaultNComponents), burst.epsi, DefaultAlpha)
           IN  /\ burstTrace' = [called |-> TRUE, dXX |-> dXX, distMat |-> distMat,
                                 call |-> eigs,
                                 error |-> IF eigsOk THEN "none" ELSE "sla.eigs"]
               /\ burst' = IF eigsOk
                           THEN [burst EXCEPT !.M = IntVal(burstArg.M), !.rc = eigs,
                                              !.distMat = ArrVal(distMat),
                                              !.status = "fitted"]
                           ELSE [burst EXCEPT !.M = IntVal(burstArg.M),
                                              !.status = "failed"]
               /\ UNCHANGED <<burstArg, trajTM, trajTrace, lrfVars, dmVars>>

\* ------------------------------------- KernelTrajTransitionManifold
ArraysOf(S, lo, hi) == UNION {[0 .. (len - 1) -> S] : len \in lo .. hi}

\* cKDTree(xtest).query(traj)[1]: for every trajectory point the index of a
\* nearest test point (which one, among equally near ones, is the library's)
NearestAssignments(xtest, traj) ==
    {c \in [DOMAIN traj -> DOMAIN xtest] :
        \A t \in DOMAIN traj : \A i \in DOMAIN xtest :
            Abs(traj[t] - xtest[c[t]]) <= Abs(traj[t] - xtest[i])}

\* a shift in the opposite direction
ShiftBack(mask, lag) ==
    [t \in DOMAIN mask |->
        IF (t + lag) \in DOMAIN mask THEN mask[t + lag] ELSE FALSE]

\* shift(mask, lag, cval=False): out[t] = mask[t - lag], False shifted in
Shift(mask, lag) ==
    [t \in DOMAIN mask |->
        IF (t - lag) \in DOMAIN mask THEN mask[t - lag] ELSE FALSE]

\* laggedInd of every test point
LaggedInd(closest, npoints, lag) ==
    [i \in 0 .. (npoints - 1) |->
        Shift([t \in DOMAIN closest |-> closest[t] = i], lag)]

TrajDXX(kern, pointclouds) ==
    [i \in DOMAIN pointclouds |->
        NpSum(KernelEvaluate(kern, pointclouds[i], pointclouds[i]))]

\* an entry normalised by one global cloud size
TrajEntryGlobal(kern, pointclouds, dXX, i, j) ==
    LET m == ALen(pointclouds[0])
    IN  RatDiv(RatOfInt(dXX[i] + dXX[j]
                   - 2 * NpSum(KernelEvaluate(kern, pointclouds[i], pointclouds[j]))),
               RatOfInt(m * m))

\* dXX[i]/ni**2 + dXX[j]/nj**2 - 2*np.sum(GXY)/(ni*nj)
TrajEntry(kern, pointclouds, dXX, i, j) ==
    LET ni  == ALen(pointclouds[i])
        nj  == ALen(pointclouds[j])
        GXY == KernelEvaluate(kern, pointclouds[i], pointclouds[j])
    IN  RatSub(RatAdd(RatDiv(RatOfInt(dXX[i]), RatOfInt(ni * ni)),
                      RatDiv(RatOfInt(dXX[j]), RatOfInt(nj * nj))),
               RatDiv(RatOfInt(2 * NpSum(GXY)), RatOfInt(ni * nj)))

TrajLower(kern, pointclouds, dXX) ==
    [i \in DOMAIN pointclouds |-> [j \in DOMAIN pointclouds |->
        IF j < i THEN TrajEntry(kern, pointclouds, dXX, i, j) ELSE RatOfInt(0)]]

TrajInit ==
    \E xtest \in ArraysOf(Points, 1, MaxPoints), traj \in ArraysOf(Points, 1, MaxTraj),
       lag \in -MaxLag .. MaxLag, kern \in Kernels, epsi \in Epsis :
        /\ trajTM = [kind |-> "KernelTrajTransitionManifold", xtest |-> xtest, traj |-> traj, lag |-> lag, kernel |-> kern,
                     epsi |-> epsi, rc |-> None, distMat |-> Unset, status |-> "new"]
        /\ trajTrace = [called |-> FALSE]

\* computeRC(showprogress).  The call ml.diffusionMaps(self.xtest, distMat,
\* epsi=self.epsi) binds distMat := xtest and n_components := distMat.
TrajComputeRC ==
    /\ trajTM.kind = "KernelTrajTransitionManifold"
    /\ trajTM.status = "new"
    /\ \E closest \in NearestAssignments(trajTM.xtest, trajTM.traj), eigsOk \in BOOLEAN :
       \E laggedInd \in {LaggedInd(closest, ALen(trajTM.xtest), trajTM.lag)} :
       \E pointclouds \in {[i \in DOMAIN laggedInd |->
                               MaskSelect(trajTM.traj, laggedInd[i])]} :
       \E dXX \in {TrajDXX(trajTM.kernel, pointclouds)} :
       \E distMat \in {MirrorAdd(TrajLower(trajTM.kernel, pointclouds, dXX))} :
           LET eigs == DiffusionMapsResult(ArrVal(PointsAsMatrix(trajTM.xtest)),
                                           ArrVal(distMat),
                                           trajTM.epsi, DefaultAlpha)
           IN  /\ trajTrace' = [called |-> TRUE, closest |-> closest,
                                laggedInd |-> laggedInd, pointclouds |-> pointclouds,
                                dXX |-> dXX, distMat |-> distMat, call |-> eigs,
                                error |-> IF eigsOk THEN "none" ELSE "sla.eigs"]
               /\ trajTM' = IF eigsOk
                            THEN [trajTM EXCEPT !.rc = eigs, !.distMat = ArrVal(distMat),
                                                !.status = "done"]
                            ELSE [trajTM EXCEPT !.status = "failed"]
               /\ UNCHANGED <<burst, burstArg, burstTrace, lrfVars, dmVars>>

\* ------------------------------------- LinearRandomFeatureManifold
\* largest number of distinct data sets / test sets
MaxData == 2

\* the ensembles X passed to fit: their shape and which data they hold
Ensembles ==
    [id : 1 .. MaxData, n_points : 1 .. MaxPoints, M : 1 .. MaxSims, dim : {1, 2}]

Methods == {"rff", "nystroem", "fourier"}

\* __init__: sampler, embedded and vec start as None; n_points, M and dim are
\* not attributes yet
LrfInit ==
    /\ \E method \in Methods :
          lrf = [kind |-> "LinearRandomFeatureManifold", method |-> method,
                 sampler |-> None, embedded |-> None, vec |-> None,
                 n_points |-> Unset, M |-> Unset, dim |-> Unset,
                 fitCalls |-> FALSE]
    /\ lrfOut = [op |-> "init", error |-> "none", value |-> None]

\* the model state a fit call may touch
ModelState(l) == <<l.sampler, l.embedded, l.vec, l.n_points, l.M, l.dim>>

\* RBFSampler(...) / Nystroem(...): a new sampler, not fitted yet
NewSampler(method) ==
    [kind |-> IF method = "rff" THEN "RBFSampler" ELSE "Nystroem",
     fitted |-> FALSE, data |-> 0]

\* a fit in which every statement succeeds or raises (stop names the statement
\* that raises: "method" for the ValueError of the else branch, "fit_transform",
\* "eigsh", or "none")
LrfAfterFit(l, X, stop) ==
    LET shaped == [l EXCEPT !.n_points = IntVal(X.n_points), !.M = IntVal(X.M),
                            !.dim = IntVal(X.dim), !.fitCalls = TRUE]
        fresh  == [shaped EXCEPT !.sampler = NewSampler(l.method)]
        fitted == [fresh EXCEPT !.sampler.fitted = TRUE, !.sampler.data = X.id,
                                !.embedded = [kind |-> "centered", data |-> X.id]]
    IN  CASE stop = "method"        -> shaped
          [] stop = "fit_transform" -> fresh
          [] stop = "eigsh"         -> fitted
          [] stop = "none"          -> [fitted EXCEPT !.vec = [kind |-> "eigvec",
                                                               data |-> X.id]]

\* where fit(X) can stop
FitStops(l) ==
    IF l.method \in {"rff", "nystroem"} THEN {"none", "fit_transform", "eigsh"}
    ELSE {"method"}

FitError(stop) ==
    CASE stop = "none"          -> "none"
      [] stop = "method"        -> "ValueError"
      [] stop = "fit_transform" -> "sampler.fit_transform"
      [] stop = "eigsh"         -> "eigsh"

LrfFit ==
    /\ lrf.kind = "LinearRandomFeatureManifold"
    /\ \E X \in Ensembles : \E stop \in FitStops(lrf) :
          /\ lrf' = LrfAfterFit(lrf, X, stop)
          /\ lrfOut' = [op |-> "fit", error |-> FitError(stop), value |-> None]
    /\ UNCHANGED <<builderVars, dmVars>>

\* a predict that does not look at the sampler first
PredictUnchecked(l, Y) ==
    IF l.sampler # None /\ l.sampler.fitted /\ l.vec # None
    THEN [op |-> "predict", error |-> "none",
          value |-> [test |-> Y, sampler |-> l.sampler.data, vec |-> l.vec.data]]
    ELSE [op |-> "predict", error |-> "AttributeError", value |-> None]

\* predict(Y): the RuntimeError of the None check, then sampler.transform
\* (which raises on a sampler that was never fitted), then Y_embedded @ vec
\* (a TypeError when vec is None)
Predict(l, Y) ==
    IF l.sampler = None
    THEN [op |-> "predict", error |-> "RuntimeError", value |-> None]
    ELSE IF ~l.sampler.fitted
    THEN [op |-> "predict", error |-> "sampler.transform", value |-> None]
    ELSE IF l.vec = None
    THEN [op |-> "predict", error |-> "TypeError", value |-> None]
    ELSE [op |-> "predict", error |-> "none",
          value |-> [test |-> Y, sampler |-> l.sampler.data, vec |-> l.vec.data]]

LrfPredict ==
    /\ lrf.kind = "LinearRandomFeatureManifold"
    /\ \E Y \in 1 .. MaxData : lrfOut' = Predict(lrf, Y)
    /\ UNCHANGED <<lrf, builderVars, dmVars>>

\* ------------------------------------------- diffusion maps engine
\* The distance grid.  An entry m of a distance matrix stands for the distance
\* sqrt(m * epsi * ln 2), for which np.exp(-d**2/epsi) is exactly 2^-m.
Exponents == {0, 1, 2}

\* the exponents alpha of the density normalisation
Alphas == {[n |-> 0, d |-> 1], [n |-> 1, d |-> 2], [n |-> 1, d |-> 1]}

UpperPairs(n) == {p \in (0 .. (n - 1)) \X (0 .. (n - 1)) : p[1] < p[2]}

\* symmetric distance matrices with a zero diagonal
DistanceMatrices ==
    UNION {{[i \in 0 .. (n - 1) |-> [j \in 0 .. (n - 1) |->
                IF i = j THEN 0
                ELSE IF i < j THEN f[<<i, j>>] ELSE f[<<j, i>>]]] :
              f \in [UpperPairs(n) -> Exponents]} :
           n \in 1 .. MaxDim}

RECURSIVE Pow2(_)
Pow2(m) == IF m = 0 THEN 1 ELSE 2 * Pow2(m - 1)

\* np.exp(-distMat**2/epsi) on the distance grid of bandwidth epsi
GaussKernel(D, epsi) ==
    [i \in DOMAIN D |-> [j \in DOMAIN D |-> Rat(1, Pow2(D[i][j]))]]

RECURSIVE RatSumTo(_, _)
RatSumTo(a, k) == IF k = 0 THEN RatOfInt(0) ELSE RatAdd(RatSumTo(a, k - 1), a[k - 1])

\* np.sum(A, axis=0) and the built-in sum(A, 0): entry j is the sum of column j
ColSums(A) == [j \in DOMAIN A |-> RatSumTo([i \in DOMAIN A |-> A[i][j]], ALen(A))]

\* the sums of the rows
RowSums(A) == [i \in DOMAIN A |-> RatSumTo(A[i], ALen(A[i]))]

IsSquare(k) == \E r \in 0 .. k : r * r = k

ISqrt(k) == CHOOSE r \in 0 .. k : r * r = k

\* x**alpha is rational for alpha in {0, 1}, and for alpha = 1/2 when x is the
\* square of a rational
HasExactPow(x, alpha) == alpha.d = 1 \/ (IsSquare(x.n) /\ IsSquare(x.d))

RatPow(x, alpha) ==
    IF alpha.n = 0 THEN RatOfInt(1)
    ELSE IF alpha.d = 1 THEN x
    ELSE [n |-> ISqrt(x.n), d |-> ISqrt(x.d)]

\* kernelMat / np.outer(rowsum**alpha, rowsum**alpha)
AlphaNormalise(K, rowsum, alpha) ==
    [i \in DOMAIN K |-> [j \in DOMAIN K |->
        RatDiv(K[i][j], RatMul(RatPow(rowsum[i], alpha), RatPow(rowsum[j], alpha)))]]

\* kernelMat / np.tile(sum(kernelMat,0),(npoints,1)): entry [i,j] is divided by
\* the sum of column j
RowNormalise(K) ==
    LET s == ColSums(K)
    IN  [i \in DOMAIN K |-> [j \in DOMAIN K |-> RatDiv(K[i][j], s[j])]]

\* np.diag(sum(kernelMat,0))
Diag(v) ==
    [i \in DOMAIN v |-> [j \in DOMAIN v |-> IF i = j THEN v[i] ELSE RatOfInt(0)]]

\* sla.eigs(A, k, M) returns k eigenpairs of an n x n problem (an n x k array
\* of eigenvectors), as a term over the problem it was given
EigsResult(A, k, M) ==
    [kind |-> "eigs", A |-> A, M |-> M, nrows |-> ALen(A), ncols |-> k]

\* the body of diffusionMaps with the weight matrix taken before the row
\* normalisation
DiffusionMapsWeightFirst(distMat, epsi, alpha) ==
    LET K0     == GaussKernel(distMat, epsi)
        rowsum == ColSums(K0)
        K1     == AlphaNormalise(K0, rowsum, alpha)
        K2     == RowNormalise(K1)
    IN  [kernelMat |-> K0, rowsum |-> rowsum, normalised |-> K1, P |-> K2,
         weightMat |-> Diag(ColSums(K1))]

\* the body of diffusionMaps up to the eigensolver call.  The source reuses
\* the name kernelMat: K0 is its value after the exponential, K1 after the
\* density normalisation, K2 after the row normalisation; weightMat is taken
\* from the value kernelMat has at that statement, K2.
DiffusionMapsLocals(distMat, epsi, alpha) ==
    LET K0     == GaussKernel(distMat, epsi)
        rowsum == ColSums(K0)
        K1     == AlphaNormalise(K0, rowsum, alpha)
        K2     == RowNormalise(K1)
    IN  [kernelMat |-> K0, rowsum |-> rowsum, normalised |-> K1, P |-> K2,
         weightMat |-> Diag(ColSums(K2))]

DmInit ==
    /\ \E D \in DistanceMatrices, k \in 1 .. MaxComp, epsi \in Epsis, alpha \in Alphas :
          /\ \A j \in DOMAIN D : HasExactPow(ColSums(GaussKernel(D, epsi))[j], alpha)
          /\ dm = [kind |-> "diffusionMaps", status |-> "new", distMat |-> D,
                   n_components |-> k, epsi |-> epsi, alpha |-> alpha]
    /\ dmOut = [op |-> "none", n_components |-> 0, error |-> "none", value |-> None]

\* diffusionMaps(distMat, n_components, epsi, alpha).  The eigensolver returns
\* or raises; it cannot return more eigenpairs than the problem has.
DmDiffusionMaps ==
    /\ dm.kind = "diffusionMaps"
    /\ dm.status = "new"
    /\ \E eigsOk \in BOOLEAN :
       \E loc \in {DiffusionMapsLocals(dm.distMat, dm.epsi, dm.alpha)} :
          /\ eigsOk => dm.n_components <= ALen(dm.distMat)
          /\ dm' = [kind |-> "diffusionMaps",
                    status |-> IF eigsOk THEN "returned" ELSE "raised",
                    distMat |-> dm.distMat, n_components |-> dm.n_components,
                    epsi |-> dm.epsi, alpha |-> dm.alpha,
                    kernelMat |-> loc.kernelMat, rowsum |-> loc.rowsum,
                    normalised |-> loc.normalised, P |-> loc.P,
                    weightMat |-> loc.weightMat,
                    eigs |-> IF eigsOk
                             THEN EigsResult(loc.P, dm.n_components, loc.weightMat)
                             ELSE None]
    /\ UNCHANGED <<dmOut, builderVars, lrfVars>>

Min(a, b) == IF a < b THEN a ELSE b

\* eigs[1].real[:, :n_components] * eigs[0].real[np.newaxis, :n_components]:
\* a slice past the end is cut to the columns there are
EvaluateDiffusionMaps(eigs, n_components) ==
    LET cols == Min(n_components, eigs.ncols)
    IN  [op |-> "evaluateDiffusionMaps", n_components |-> n_components,
         error |-> "none",
         value |-> [i \in 0 .. (eigs.nrows - 1) |-> [j \in 0 .. (cols - 1) |->
                       [eigvec |-> <<i, j>>, eigval |-> j]]]]

DmEvaluate ==
    /\ dm.kind = "diffusionMaps"
    /\ dm.status = "returned"
    /\ \E k \in 0 .. (MaxComp + 1) : dmOut' = EvaluateDiffusionMaps(dm.eigs, k)
    /\ UNCHANGED <<dm, builderVars, lrfVars>>

\* --------------------------------------------------- specifications
\* a component that is not part of the run
Idle == [kind |-> "idle", called |-> FALSE]

BuildersIdle ==
    /\ burst = Idle /\ burstArg = Idle /\ burstTrace = Idle
    /\ trajTM = Idle /\ trajTrace = Idle

LrfIdle == lrf = Idle /\ lrfOut = Idle

DmIdle == dm = Idle /\ dmOut = Idle

\* The pairwise-matrix builders: one of the two kernel variants is constructed
\* and its fit / computeRC is called.
Init ==
    /\ \/ BurstInit /\ trajTM = Idle /\ trajTrace = Idle
       \/ TrajInit /\ burst = Idle /\ burstArg = Idle /\ burstTrace = Idle
    /\ LrfIdle /\ DmIdle

Next == BurstFit \/ TrajComputeRC

Spec == Init /\ [][Next]_vars

\* The linear random-feature engine: an instance and any sequence of fit and
\* predict calls on it.
InitLRF == LrfInit /\ BuildersIdle /\ DmIdle

NextLRF == LrfFit \/ LrfPredict

SpecLRF == InitLRF /\ [][NextLRF]_vars

\* The diffusion maps engine: diffusionMaps on an input matrix, then
\* evaluateDiffusionMaps on its result.
InitDM == DmInit /\ BuildersIdle /\ LrfIdle

NextDM == DmDiffusionMaps \/ DmEvaluate

SpecDM == InitDM /\ [][NextDM]_vars

\* ------------------------------------------------- claims: builders
\* the sum of k over the index pairs S of two clouds
RECURSIVE SumPairs(_, _, _, _)
SumPairs(kern, C, D, S) ==
    IF S = {} THEN 0
    ELSE LET p == CHOOSE q \in S : TRUE
         IN  KernelValue(kern, C[p[1]], D[p[2]]) + SumPairs(kern, C, D, S \ {p})

KernelSum(kern, C, D) == SumPairs(kern, C, D, (DOMAIN C) \X (DOMAIN D))

\* S_i/|C_i|^2 + S_j/|C_j|^2 - 2*K_ij/(|C_i|*|C_j|) for two non-empty clouds
MMD2(kern, Ci, Cj) ==
    RatSub(RatAdd(Rat(KernelSum(kern, Ci, Ci), ALen(Ci) * ALen(Ci)),
                  Rat(KernelSum(kern, Cj, Cj), ALen(Cj) * ALen(Cj))),
           Rat(2 * KernelSum(kern, Ci, Cj), ALen(Ci) * ALen(Cj)))

ZeroDiagSymmetric(D) ==
    /\ \A i \in DOMAIN D : D[i][i] = RatOfInt(0)
    /\ \A i \in DOMAIN D : \A j \in DOMAIN D : D[i][j] = D[j][i]

EntriesMatch(kern, clouds, D) ==
    \A i \in DOMAIN clouds : \A j \in DOMAIN clouds :
        (/\ i # j
         /\ ALen(clouds[i]) > 0 /\ ALen(clouds[j]) > 0
         /\ (j < i \/ kern \in SymmetricKernels))
        => D[i][j] = MMD2(kern, clouds[i], clouds[j])

\* C2: every off-diagonal entry is S_i/|C_i|^2 + S_j/|C_j|^2 - 2*K_ij/(|C_i|*|C_j|)
\* with the actual size of each cloud: in computeRC the clouds are the
\* point clouds of the test points, in fit cloud i is the M endpoints
\* X[i, 0..M-1] of start point i.  (Entries above the diagonal are the mirrored
\* ones, so they carry K_ji, which is K_ij for a symmetric kernel.)
C2_EntryFormula ==
    /\ burstTrace.called
          => EntriesMatch(burst.kernel, burstArg.data, burstTrace.distMat)
    /\ trajTrace.called
          => EntriesMatch(trajTM.kernel, trajTrace.pointclouds, trajTrace.distMat)

C2_Witness ==
    /\ trajTrace.called
    /\ trajTM.kernel = "linear"
    /\ ALen(trajTM.xtest) = 2
    /\ ALen(trajTrace.pointclouds[0]) = 2
    /\ ALen(trajTrace.pointclouds[1]) = 1
    /\ trajTrace.distMat[0][1].n # 0

\* C7: when some cloud of computeRC is empty, computeRC fails with
\* InvalidArgument and stores neither distMat nor rc.
C7_EmptyCloudRejected ==
    (/\ trajTrace.called
     /\ \E i \in DOMAIN trajTrace.pointclouds : ALen(trajTrace.pointclouds[i]) = 0)
    => /\ trajTrace.error = "InvalidArgument"
       /\ trajTM.distMat = Unset
       /\ trajTM.rc = None

\* the diffusionMaps call the variants are said to make
IsOwnMatrixCall(call, distMat, epsi) ==
    /\ call.distMat = ArrVal(distMat)
    /\ call.n_components.kind = "int"
    /\ call.n_components.val = DefaultNComponents
    /\ call.epsi = epsi
    /\ call.alpha = DefaultAlpha

\* C9: both variants call diffusionMaps with their own assembled pairwise
\* matrix as the matrix argument, epsi = self.epsi and the default n_components
\* and alpha, and on completion store that result as rc and that matrix as
\* distMat.
C9_RcFromOwnDistMat ==
    /\ burstTrace.called
          => /\ IsOwnMatrixCall(burstTrace.call, burstTrace.distMat, burst.epsi)
             /\ burstTrace.error = "none"
                   => /\ burst.rc = burstTrace.call
                      /\ burst.distMat = ArrVal(burstTrace.distMat)
    /\ trajTrace.called
          => /\ IsOwnMatrixCall(trajTrace.call, trajTrace.distMat, trajTM.epsi)
             /\ trajTrace.error = "none"
                   => /\ trajTM.rc = trajTrace.call
                      /\ trajTM.distMat = ArrVal(trajTrace.distMat)

\* the trajectory indices of cloud i: the points lag steps after cell i
LaggedCell(closest, T, L, i) ==
    IF L >= 0 THEN {t \in L .. (T - 1) : closest[t - L] = i}
    ELSE {t \in 0 .. (T + L - 1) : closest[t - L] = i}

Occurrences(a, S, p) == Cardinality({q \in S : a[q] = p})

RECURSIVE TotalSize(_, _)
TotalSize(clouds, k) ==
    IF k = 0 THEN 0 ELSE TotalSize(clouds, k - 1) + ALen(clouds[k - 1])

\* what C10 says of the clouds themselves
CloudsAreLaggedCells ==
    LET T == ALen(trajTM.traj)
        L == trajTM.lag
        n == ALen(trajTM.xtest)
    IN  /\ \A i \in 0 .. (n - 1) :
              LET S == LaggedCell(trajTrace.closest, T, L, i)
              IN  /\ {t \in 0 .. (T - 1) : trajTrace.laggedInd[i][t]} = S
                  /\ ALen(trajTrace.pointclouds[i]) = Cardinality(S)
                  /\ \A p \in Points :
                        Occurrences(trajTrace.pointclouds[i],
                                    DOMAIN trajTrace.pointclouds[i], p)
                           = Occurrences(trajTM.traj, S, p)
        /\ \A t \in 0 .. (T - 1) :
              /\ Cardinality({i \in 0 .. (n - 1) : trajTrace.laggedInd[i][t]}) <= 1
              /\ (L >= 0 /\ t < L) => \A i \in 0 .. (n - 1) : ~trajTrace.laggedInd[i][t]
              /\ (L < 0 /\ t >= T + L) => \A i \in 0 .. (n - 1) : ~trajTrace.laggedInd[i][t]

C3_PredictBeforeFitFails ==
    (lrf.kind = "LinearRandomFeatureManifold" /\ ~lrf.fitCalls)
    => /\ lrf.sampler = None /\ lrf.embedded = None /\ lrf.vec = None
       /\ lrfOut.op = "predict"
             => (lrfOut.error = "RuntimeError" /\ lrfOut.value = None)

C3_Witness ==
    /\ lrf.kind = "LinearRandomFeatureManifold"
    /\ ~lrf.fitCalls
    /\ lrfOut.op = "predict"
    /\ lrfOut.error = "RuntimeError"

\* C4: a fit that fails leaves sampler, embedded, vec, n_points, M and dim as
\* they were before the call.
C4_FailedFitKeepsState ==
    [][(lrfOut'.op = "fit" /\ lrfOut'.error # "none")
          => ModelState(lrf') = ModelState(lrf)]_vars

\* ------------------------------------- claims: diffusion maps engine
\* C5: evaluateDiffusionMaps(eigs, k) fails with InvalidArgument when k is
\* larger than the number of eigenpairs in eigs, and returns n x k coordinates
\* otherwise.
C5_EvaluateRejectsLargeK ==
    (dm.kind = "diffusionMaps" /\ dmOut.op = "evaluateDiffusionMaps")
    => IF dmOut.n_components > dm.eigs.ncols
       THEN dmOut.error = "InvalidArgument"
       ELSE /\ dmOut.error = "none"
            /\ \A i \in DOMAIN dmOut.value : ALen(dmOut.value[i]) = dmOut.n_components

\* C6: the matrix P handed to the eigensolver is row-stochastic: every row of
\* P sums to 1.
C6_RowStochastic ==
    (dm.kind = "diffusionMaps" /\ dm.status = "returned")
    => \A i \in DOMAIN dm.P : RowSums(dm.P)[i] = RatOfInt(1)

\* the sum of column i of a matrix
ColumnSum(A, i) == RatSumTo([m \in DOMAIN A |-> A[m][i]], ALen(A))

\* C8 as stated: the weight matrix handed to the eigensolver is
\* diag(colsum(K')) of the alpha-normalised matrix K' before the row
\* normalisation.
C8_WeightFromAlphaNormalised ==
    (dm.kind = "diffusionMaps" /\ dm.status = "returned")
    => \A i \in DOMAIN dm.weightMat : \A j \in DOMAIN dm.weightMat :
          dm.weightMat[i][j] =
              IF i = j THEN ColumnSum(dm.normalised, i) ELSE RatOfInt(0)

\* C8, amended: the weight matrix handed to the eigensolver is diag(colsum(P))
\* of the matrix P that is handed to the eigensolver with it, the matrix after
\* the row normalisation.
C8_WeightFromNormalisedP ==
    (dm.kind = "diffusionMaps" /\ dm.status = "returned")
    => /\ dm.eigs.A = dm.P /\ dm.eigs.M = dm.weightMat
       /\ \A i \in DOMAIN dm.weightMat : \A j \in DOMAIN dm.weightMat :
             dm.weightMat[i][j] =
                 IF i = j THEN ColumnSum(dm.P, i) ELSE RatOfInt(0)

C8_Witness ==
    /\ dm.kind = "diffusionMaps" /\ dm.status = "returned"
    /\ ALen(dm.distMat) = 3
    /\ dm.alpha = [n |-> 1, d |-> 1]
    /\ \E i \in DOMAIN dm.P : ColumnSum(dm.normalised, i) # ColumnSum(dm.P, i)

=============================================================================
